---- MODULE Spec2Model ----
(***************************************************************************)
(* Subtitle resolution of bilibili-text: the IndexedDB subtitle cache      *)
(* (services/indexedDBStorage.ts), the speech recognition service          *)
(* (services/speechRecognition.ts), the useSubtitles hook and the video    *)
(* page that triggers transcription (app/video/[videoId]/page.tsx).        *)
(*                                                                         *)
(* Time is counted in units of ten days, so the 30-day CACHE_TTL is 3.     *)
(***************************************************************************)
EXTENDS Integers, Sequences, FiniteSets, TLC

\* ------------------------------------------------------------------ bounds
Videos == {"A", "B"}
MaxNow == 4
MaxApiCalls == 2
MaxNav == 1
MaxReload == 1
\* the concurrent direct callers of the speech recognition service
Callers == {"c1", "c2"}
\* longest raw subtitle array handed to a parser
MaxBody == 2
\* requests the transcribe route handles
MaxRequests == 2
\* playback positions fed by the player: 0 .. MaxTime
MaxTime == 5

\* ------------------------------------------------------- program constants
\* indexedDBStorage.ts: CACHE_TTL = 30 * 24 * 60 * 60 * 1000 ms = 3 units
CACHE_TTL == 3
\* the delay of the debounced time update, 100 ms, in units of 50 ms
DEBOUNCE_DELAY == 2

Speech == "speech-recognition"
Native == "native"

\* segment lists a subtitle source can deliver
Seg(i, from, to, content) ==
    [id |-> i, startTime |-> from, endTime |-> to, text |-> content]
SegsHi == << Seg(0, 0, 5, "hi"), Seg(1, 5, 10, "there") >>
SegsYo == << Seg(0, 0, 4, "yo") >>
SegLists == {SegsHi, SegsYo}
\* what the subtitles route delivers for a video with author-provided subtitles
SegsNative == << Seg(0, 0, 3, "cc") >>

VARIABLES
    now,        \* Date.now()
    health,     \* the browser's IndexedDB: "ok", "unsupported", "openfails", "opfails"
    db,         \* IndexedDBService.db / initPromise: "closed", "open", "failed"
    store,      \* object store 'subtitle-cache': set of SubtitleCache, keyPath videoId
    ret,        \* outcome of the last direct IndexedDBService operation
    calls,      \* transcribeVideo invocations of direct callers: id -> activation
    apiCalls,   \* videoId -> number of POST /api/bilibili/speech/transcribe issued
    ui,         \* React state of VideoPage and useSubtitles (latest setState values)
    rendered,   \* the state and props of the last render (what effect closures see)
    procs,      \* asynchronous continuations in flight (page level)
    navs,       \* number of route changes or page loads so far
    hist,       \* history of the session, for stating properties
    track,      \* a subtitle track from the raw array to the active segment
    player,     \* useVideoPlayer: the debounced time update and the store's time
    marks,      \* useHighlights: its state, and localStorage 'highlights:<id>'
    route       \* POST /api/bilibili/speech/transcribe: a request, and os.tmpdir()

vars == << now, health, db, store, ret, calls, apiCalls, ui, rendered, procs,
           navs, hist, track, player, marks, route >>

cacheVars == << now, health, db, store >>

\* =================================================== services/indexedDBStorage.ts

NoErr == "none"

\* an availability test that always passes
isAvailableAlways == TRUE

\* isAvailable(): typeof window !== 'undefined' && 'indexedDB' in window
isAvailable == health # "unsupported"

\* initialize(): the promise of the first openDB is kept, resolved or rejected
initialize(d) ==
    IF d # "closed" THEN d
    ELSE IF health = "openfails" THEN "failed" ELSE "open"

EntryOf(st, v) == {e \in st : e.videoId = v}

\* an expiry test that reads the wrong timestamp
LoadExpiredByCachedAt(e, t) == e.cachedAt < t

\* what the code compares in loadSubtitleCache: cache.expiresAt < Date.now()
LoadExpired(e, t) == e.expiresAt < t

\* a key range that leaves out its bound
InUpperBoundOpen(e, t) == e.expiresAt < t

\* IDBKeyRange.upperBound(now) on the index 'by-expires': expiresAt <= now
InUpperBound(e, t) == e.expiresAt <= t

\* result of an IndexedDBService operation:
\*   threw: error message or NoErr; value: returned entries (empty = null);
\*   count/total/expired: returned numbers; st, d: store and db afterwards
OpResult(threw, value, count, total, expired, st, d) ==
    [threw |-> threw, value |-> value, count |-> count, total |-> total,
     expired |-> expired, st |-> st, d |-> d]

\* saveSubtitleCache degrading to a no-op instead of throwing
saveSubtitleCacheSilent(cache, st, d, t, fail) ==
    IF ~isAvailable \/ initialize(d) = "failed" \/ fail
    THEN OpResult(NoErr, {}, 0, 0, 0, st, IF isAvailable THEN initialize(d) ELSE d)
    ELSE OpResult(NoErr, {}, 0, 0, 0,
                  (st \ EntryOf(st, cache.videoId)) \cup
                  {[cache EXCEPT !.cachedAt = t, !.expiresAt = t + CACHE_TTL]},
                  initialize(d))

\* saveSubtitleCache storing the entry with the caller's timestamps
saveSubtitleCacheKeepsStamps(cache, st, d, t, fail) ==
    IF ~isAvailable
    THEN OpResult("INDEXEDDB_NOT_AVAILABLE", {}, 0, 0, 0, st, d)
    ELSE IF initialize(d) = "failed"
    THEN OpResult("INDEXEDDB_INIT_FAILED", {}, 0, 0, 0, st, initialize(d))
    ELSE IF fail
    THEN OpResult("CACHE_SAVE_FAILED", {}, 0, 0, 0, st, initialize(d))
    ELSE OpResult(NoErr, {}, 0, 0, 0,
                  (st \ EntryOf(st, cache.videoId)) \cup {cache}, initialize(d))

\* saveSubtitleCache(cache); fail: this.db.put throws
saveSubtitleCache(cache, st, d, t, fail) ==
    IF ~isAvailable
    THEN OpResult("INDEXEDDB_NOT_AVAILABLE", {}, 0, 0, 0, st, d)
    ELSE LET d2 == initialize(d) IN
         IF d2 = "failed"
         THEN OpResult("INDEXEDDB_INIT_FAILED", {}, 0, 0, 0, st, d2)
         ELSE IF fail
         THEN OpResult("CACHE_SAVE_FAILED", {}, 0, 0, 0, st, d2)
         ELSE LET cacheWithExpiry ==
                      [cache EXCEPT !.cachedAt = t, !.expiresAt = t + CACHE_TTL]
              IN OpResult(NoErr, {}, 0, 0, 0,
                          (st \ EntryOf(st, cache.videoId)) \cup {cacheWithExpiry},
                          d2)

\* loadSubtitleCache(videoId); fail: this.db.get or this.db.delete throws
loadSubtitleCache(v, st, d, t, fail) ==
    IF ~isAvailable
    THEN OpResult(NoErr, {}, 0, 0, 0, st, d)
    ELSE LET d2 == initialize(d) IN
         IF d2 = "failed"
         THEN OpResult("INDEXEDDB_INIT_FAILED", {}, 0, 0, 0, st, d2)
         ELSE IF fail
         THEN OpResult(NoErr, {}, 0, 0, 0, st, d2)
         ELSE LET cache == EntryOf(st, v) IN
              IF cache = {}
              THEN OpResult(NoErr, {}, 0, 0, 0, st, d2)
              ELSE IF \E e \in cache : LoadExpired(e, t)
              THEN OpResult(NoErr, {}, 0, 0, 0, st \ cache, d2)
              ELSE OpResult(NoErr, cache, 0, 0, 0, st, d2)

\* clearExpiredCache(); fail: the cursor walk throws and the transaction aborts
clearExpiredCache(st, d, t, fail) ==
    IF ~isAvailable
    THEN OpResult(NoErr, {}, 0, 0, 0, st, d)
    ELSE LET d2 == initialize(d) IN
         IF d2 = "failed"
         THEN OpResult("INDEXEDDB_INIT_FAILED", {}, 0, 0, 0, st, d2)
         ELSE IF fail
         THEN OpResult(NoErr, {}, 0, 0, 0, st, d2)
         ELSE LET gone == {e \in st : InUpperBound(e, t)} IN
              OpResult(NoErr, {}, Cardinality(gone), 0, 0, st \ gone, d2)

\* clearVideoCache(videoId); fail: this.db.delete throws
clearVideoCache(v, st, d, fail) ==
    IF ~isAvailable
    THEN OpResult(NoErr, {}, 0, 0, 0, st, d)
    ELSE LET d2 == initialize(d) IN
         IF d2 = "failed"
         THEN OpResult("INDEXEDDB_INIT_FAILED", {}, 0, 0, 0, st, d2)
         ELSE IF fail
         THEN OpResult(NoErr, {}, 0, 0, 0, st, d2)
         ELSE OpResult(NoErr, {}, 0, 0, 0, st \ EntryOf(st, v), d2)

\* clearAllCache(); fail: this.db.clear throws
clearAllCache(st, d, fail) ==
    IF ~isAvailable
    THEN OpResult(NoErr, {}, 0, 0, 0, st, d)
    ELSE LET d2 == initialize(d) IN
         IF d2 = "failed"
         THEN OpResult("INDEXEDDB_INIT_FAILED", {}, 0, 0, 0, st, d2)
         ELSE IF fail
         THEN OpResult(NoErr, {}, 0, 0, 0, st, d2)
         ELSE OpResult(NoErr, {}, 0, 0, 0, {}, d2)

\* getCacheStats(); fail: a count throws
getCacheStats(st, d, t, fail) ==
    IF ~isAvailable
    THEN OpResult(NoErr, {}, 0, 0, 0, st, d)
    ELSE LET d2 == initialize(d) IN
         IF d2 = "failed"
         THEN OpResult("INDEXEDDB_INIT_FAILED", {}, 0, 0, 0, st, d2)
         ELSE IF fail
         THEN OpResult(NoErr, {}, 0, 0, 0, st, d2)
         ELSE OpResult(NoErr, {}, 0, Cardinality(st),
                       Cardinality({e \in st : InUpperBound(e, t)}), st, d2)

\* a store operation can throw only when the store is faulty
Fails == IF health = "opfails" THEN BOOLEAN ELSE {FALSE}

\* =================================================== services/speechRecognition.ts

Lang == "zh"

\* hasCachedResult that does not look at the source of the entry
hasCachedResultAnySource(v, st, d, t, fail) ==
    LET r == loadSubtitleCache(v, st, d, t, fail) IN
    [value |-> r.threw = NoErr /\ r.value # {}, st |-> r.st, d |-> r.d]

\* hasCachedResult(videoId): errors of the cache are caught and read as "no"
hasCachedResult(v, st, d, t, fail) ==
    LET r == loadSubtitleCache(v, st, d, t, fail) IN
    [value |-> r.threw = NoErr /\ \E e \in r.value : e.source = Speech,
     st |-> r.st, d |-> r.d]

\* getCachedResult accepting only entries of the other source
getCachedResultWrongSource(v, st, d, t, fail) ==
    LET r == loadSubtitleCache(v, st, d, t, fail) IN
    [value |-> IF r.threw = NoErr
               THEN {e.subtitles : e \in {x \in r.value : x.source = Native}}
               ELSE {},
     threw |-> NoErr, st |-> r.st, d |-> r.d]

\* getCachedResult that lets the error of loadSubtitleCache escape
getCachedResultRethrows(v, st, d, t, fail) ==
    LET r == loadSubtitleCache(v, st, d, t, fail) IN
    [value |-> IF r.threw = NoErr
               THEN {e.subtitles : e \in {x \in r.value : x.source = Speech}}
               ELSE {},
     threw |-> r.threw, st |-> r.st, d |-> r.d]

\* getCachedResult(videoId): the cached subtitles ({} stands for null); the
\* catch returns null, so nothing is thrown to the caller
getCachedResult(v, st, d, t, fail) ==
    LET r == loadSubtitleCache(v, st, d, t, fail) IN
    [value |-> IF r.threw = NoErr
               THEN {e.subtitles : e \in {x \in r.value : x.source = Speech}}
               ELSE {},
     threw |-> NoErr, st |-> r.st, d |-> r.d]

\* cacheResult that never reaches the store
cacheResultSkipped(v, subs, st, d, t, fail) ==
    [threw |-> NoErr, st |-> st, d |-> d]

\* cacheResult that lets the error of saveSubtitleCache escape
cacheResultRethrows(v, subs, st, d, t, fail) ==
    LET r == saveSubtitleCache(
                 [videoId |-> v, subtitles |-> subs, cachedAt |-> t,
                  expiresAt |-> t + CACHE_TTL, source |-> Speech,
                  language |-> Lang], st, d, t, fail)
    IN [threw |-> r.threw, st |-> r.st, d |-> r.d]

\* cacheResult(videoId, subtitles, language): a failing save is swallowed
cacheResult(v, subs, st, d, t, fail) ==
    LET r == saveSubtitleCache(
                 [videoId |-> v, subtitles |-> subs, cachedAt |-> t,
                  expiresAt |-> t + CACHE_TTL, source |-> Speech,
                  language |-> Lang], st, d, t, fail)
    IN [threw |-> NoErr, st |-> r.st, d |-> r.d]

\* clearCache(videoId): a failing delete is swallowed
clearCache(v, st, d, fail) ==
    LET r == clearVideoCache(v, st, d, fail) IN [st |-> r.st, d |-> r.d]

\* the error object thrown by transcribeVideo
NoError == [kind |-> "none", status |-> 0, retryable |-> TRUE]
\* response.ok false: error.status = response.status,
\* error.retryable = status !== 501 && status !== 500
HttpError(status) ==
    [kind |-> "http", status |-> status,
     retryable |-> (status # 501 /\ status # 500)]
\* fetch itself rejects: a TypeError without status or retryable
NetworkError == [kind |-> "network", status |-> 0, retryable |-> TRUE]
\* an error of the cache layer escaping from transcribeVideo
CacheError == [kind |-> "cache", status |-> 0, retryable |-> TRUE]

\* answers of POST /api/bilibili/speech/transcribe (status 0: no response)
ErrStatuses == {400, 429, 500, 501}
ApiOutcomes ==
    {[status |-> 200, subtitles |-> s] : s \in SegLists \cup {<< >>}}
    \cup {[status |-> s, subtitles |-> << >>] : s \in ErrStatuses \cup {0}}

\* the status the route answers with, by the cause of the failure:
\* missing videoId, missing OPENAI_API_KEY, an OpenAI.APIError (its status:
\* 429 when rate limited), any other exception (download, upstream outage);
\* 501 is the status the client reads as NOT_IMPLEMENTED
RouteStatus(cause) ==
    CASE cause = "malformed_request" -> 400
      [] cause = "not_configured" -> 500
      [] cause = "rate_limited" -> 429
      [] cause = "server_error" -> 500
      [] cause = "not_implemented" -> 501

\* one activation of transcribeVideo(options); pc is its suspension point:
\*   "cache" awaiting getCachedResult, "fetch" awaiting the POST,
\*   "save" awaiting cacheResult, "done" returned, "failed" threw
Activation(v, fr, pc) ==
    [videoId |-> v, forceRefresh |-> fr, pc |-> pc, subtitles |-> << >>,
     cached |-> FALSE, err |-> NoError]
IdleCall == Activation("none", FALSE, "idle")

Bump(api, v) == [api EXCEPT ![v] = @ + 1]
ApiTotal(api) == api["A"] + api["B"]

\* transcribeVideo reading the cache whatever forceRefresh says
tvStartAlwaysChecksCache(v, fr, api) ==
    [a |-> Activation(v, fr, "cache"), api |-> api]

\* transcribeVideo up to its first await
tvStart(v, fr, api) ==
    IF fr
    THEN [a |-> Activation(v, fr, "fetch"), api |-> Bump(api, v)]
    ELSE [a |-> Activation(v, fr, "cache"), api |-> api]

\* transcribeVideo resumed after getCachedResult
tvCache(a, st, d, t, fail, api) ==
    LET r == getCachedResult(a.videoId, st, d, t, fail) IN
    IF r.threw # NoErr
    THEN [a |-> [a EXCEPT !.pc = "failed", !.err = CacheError],
          st |-> r.st, d |-> r.d, api |-> api]
    ELSE IF r.value # {}
    THEN [a |-> [a EXCEPT !.pc = "done", !.cached = TRUE,
                          !.subtitles = CHOOSE s \in r.value : TRUE],
          st |-> r.st, d |-> r.d, api |-> api]
    ELSE [a |-> [a EXCEPT !.pc = "fetch"],
          st |-> r.st, d |-> r.d, api |-> Bump(api, a.videoId)]

\* transcribeVideo going on to cacheResult after a response that is not ok
tvReplyFallsThrough(a, out) ==
    IF out.status = 200
    THEN [a EXCEPT !.pc = "save", !.subtitles = out.subtitles]
    ELSE IF out.status = 0
    THEN [a EXCEPT !.pc = "failed", !.err = NetworkError]
    ELSE [a EXCEPT !.pc = "save", !.err = HttpError(out.status)]

\* transcribeVideo resumed after the POST
tvReply(a, out) ==
    IF out.status = 200
    THEN [a EXCEPT !.pc = "save", !.subtitles = out.subtitles]
    ELSE IF out.status = 0
    THEN [a EXCEPT !.pc = "failed", !.err = NetworkError]
    ELSE [a EXCEPT !.pc = "failed", !.err = HttpError(out.status)]

\* transcribeVideo resumed after cacheResult
tvSave(a, st, d, t, fail) ==
    LET r == cacheResult(a.videoId, a.subtitles, st, d, t, fail) IN
    IF r.threw # NoErr
    THEN [a |-> [a EXCEPT !.pc = "failed", !.err = CacheError],
          st |-> r.st, d |-> r.d]
    ELSE [a |-> [a EXCEPT !.pc = "done", !.cached = FALSE],
          st |-> r.st, d |-> r.d]

\* =================================================== services/subtitleParser.ts

\* a JSON value with its typeof; NoNum and NoStr are a field that is missing
\* where a number or a string is expected
Num(n) == [t |-> "number", v |-> n]
Str(cs) == [t |-> "string", v |-> cs]
NoNum == [t |-> "undefined", v |-> 0]
NoStr == [t |-> "undefined", v |-> << >>]

\* String.prototype.trim on a string given as its characters
RECURSIVE TrimStart(_)
TrimStart(cs) ==
    IF cs = << >> THEN << >>
    ELSE IF Head(cs) = " " THEN TrimStart(Tail(cs)) ELSE cs
RECURSIVE TrimEnd(_)
TrimEnd(cs) ==
    IF cs = << >> THEN << >>
    ELSE IF cs[Len(cs)] = " " THEN TrimEnd(SubSeq(cs, 1, Len(cs) - 1)) ELSE cs
Trim(cs) == TrimEnd(TrimStart(cs))

\* the SubtitleSegment built by the map callbacks: id `subtitle-${index}`
SubtitleId(index) == << "subtitle-", index >>
Segment(index, from, to, content) ==
    [id |-> SubtitleId(index), index |-> index, startTime |-> from,
     endTime |-> to, text |-> content]

\* a filter that rejects only spans that end before they start
KeptByFilterLoose(item) ==
    /\ item.from.t = "number" /\ item.to.t = "number"
    /\ item.content.t = "string"
    /\ ~(item.from.v < 0 \/ item.to.v < item.from.v)
    /\ Len(Trim(item.content.v)) # 0

\* the filter callback of parseSubtitles
KeptByFilter(item) ==
    IF item.from.t # "number" \/ item.to.t # "number" \/ item.content.t # "string"
    THEN FALSE
    ELSE IF item.from.v < 0 \/ item.to.v <= item.from.v
    THEN FALSE
    ELSE IF Len(Trim(item.content.v)) = 0
    THEN FALSE
    ELSE TRUE

\* Array.prototype.filter with the callback above
RECURSIVE Filter(_)
Filter(items) ==
    IF items = << >> THEN << >>
    ELSE IF KeptByFilter(Head(items))
    THEN << Head(items) >> \o Filter(Tail(items))
    ELSE Filter(Tail(items))

\* the position of the k-th kept item in items
RECURSIVE PositionOfKept(_, _, _)
PositionOfKept(items, k, at) ==
    IF KeptByFilter(items[at])
    THEN IF k = 1 THEN at ELSE PositionOfKept(items, k - 1, at + 1)
    ELSE PositionOfKept(items, k, at + 1)

\* parseSubtitles numbering the segments by their position in raw
parseSubtitlesInputIndex(raw) ==
    IF ~raw.isArray THEN << >>
    ELSE LET kept == Filter(raw.items) IN
         [k \in 1..Len(kept) |->
             Segment(PositionOfKept(raw.items, k, 1) - 1, kept[k].from.v,
                     kept[k].to.v, Trim(kept[k].content.v))]

\* parseSubtitles(raw, videoId); raw.isArray is Array.isArray(raw)
parseSubtitles(raw) ==
    IF ~raw.isArray THEN << >>
    ELSE LET kept == Filter(raw.items) IN
         [k \in 1..Len(kept) |->
             Segment(k - 1, kept[k].from.v, kept[k].to.v, Trim(kept[k].content.v))]

\* isValidSubtitleData(data)
isValidSubtitleData(data) ==
    IF ~data.isArray THEN FALSE
    ELSE IF Len(data.items) = 0 THEN FALSE
    ELSE \A k \in 1..Len(data.items) :
            /\ data.items[k].from.t = "number"
            /\ data.items[k].to.t = "number"
            /\ data.items[k].content.t = "string"

\* a scan from index k down that returns the last match
RECURSIVE FindLast(_, _, _)
FindLast(currentTime, subtitles, k) ==
    IF k < 1 THEN {}
    ELSE IF subtitles[k].startTime <= currentTime
            /\ currentTime < subtitles[k].endTime
    THEN {subtitles[k]}
    ELSE FindLast(currentTime, subtitles, k - 1)
findLastActiveSubtitle(currentTime, subtitles) ==
    FindLast(currentTime, subtitles, Len(subtitles))

\* Array.prototype.find from index k on ({} stands for undefined)
RECURSIVE Find(_, _, _)
Find(currentTime, subtitles, k) ==
    IF k > Len(subtitles) THEN {}
    ELSE IF subtitles[k].startTime <= currentTime
            /\ currentTime < subtitles[k].endTime
    THEN {subtitles[k]}
    ELSE Find(currentTime, subtitles, k + 1)

\* findActiveSubtitle(currentTime, subtitles); {} stands for null
findActiveSubtitle(currentTime, subtitles) == Find(currentTime, subtitles, 1)

\* GET /api/bilibili/subtitles from the body of the subtitle file on:
\* the SUBTITLE_PARSE_ERROR gate, then parseSubtitles
subtitlesRoute(bodyData) ==
    IF ~isValidSubtitleData(bodyData)
    THEN [code |-> "SUBTITLE_PARSE_ERROR", subtitles |-> << >>]
    ELSE [code |-> "none", subtitles |-> parseSubtitles(bodyData)]

\* =================================================== api/bilibili/speech/transcribe/route.ts

\* parseWhisperResponse(transcription, videoId, language); an item carries
\* segment.start, segment.end and segment.text as from, to and content
parseWhisperResponse(transcription) ==
    IF ~transcription.isArray THEN << >>
    ELSE [k \in 1..Len(transcription.items) |->
             Segment(k - 1, transcription.items[k].from.v,
                     transcription.items[k].to.v,
                     Trim(transcription.items[k].content.v))]

\* =================================================== initial state

Healths == {"ok", "unsupported", "openfails", "opfails"}

NoVideo == [id |-> "none", cid |-> FALSE]

\* useState initial values of VideoPage and useSubtitles, for route param v
InitUI(v) ==
    [videoId |-> v,
     video |-> NoVideo,
     isLoadingVideo |-> TRUE,
     error |-> "none",
     subtitles |-> << >>,
     isLoading |-> FALSE,
     subtitleError |-> "none",
     isSpeechRecognition |-> FALSE,
     speechRecognitionStatus |-> "idle",
     speechRecognitionProgress |-> 0,
     isTranscribing |-> FALSE,
     transcriptionError |-> "none",
     hasAttemptedTranscription |-> FALSE,
     isNonRetryableError |-> FALSE]

\* arg: the subtitles handed to the operation (saveSubtitleCache only)
\* flag: the boolean returned (hasCachedResult only)
NoRet ==
    [op |-> "none", videoId |-> "none", at |-> 0, threw |-> NoErr,
     value |-> {}, count |-> 0, total |-> 0, expired |-> 0, arg |-> << >>,
     flag |-> FALSE]

\* history kept for stating properties:
\*   terminal: videos whose transcription failed terminally in this session,
\*             with no retry click since
\*   retryFor: the video whose terminal failure the user asked to retry, until
\*             triggerSpeechRecognition starts a transcription
\*   native: video -> the last answer of its native-subtitle fetch
\*   cacheMissed: videos whose cache lookup in the hook missed
\*   transcribed: the video whose transcription succeeded since the last route change
\*   lastOk: per video, the segments and time of the last successful
\*           transcription (kept across page loads, as the cache is)
InitHist ==
    [terminal |-> {}, retryFor |-> "none",
     native |-> [v \in Videos |-> "none"],
     cacheMissed |-> {}, transcribed |-> "none", lastOk |-> {}]

\* no raw array received yet; via: the function that processed body
\* ("none", "parse", "subtitles", "transcribe"), code: the error code of the
\* route's answer, active: the active segment ({} = null)
NoTrack ==
    [body |-> [isArray |-> TRUE, items |-> << >>], via |-> "none",
     code |-> "none", segments |-> << >>, currentTime |-> 0, active |-> {}]

\* no playback tick yet: debounce's timeoutId is null, no timer is pending
\* (left = -1), the store holds initialState.currentTime
NoPlayer ==
    [timeoutId |-> "null", left |-> -1, args |-> 0, currentTime |-> 0]

\* no segment of the page's subtitle list
NoSegments == {}

\* useHighlights before its first commit, over an empty localStorage:
\*   available: what StorageService.isAvailable() answers
\*   items: video -> the segment ids stored under 'highlights:<video>'
\*   videoId: the hook's argument; highlights: its state
\*   committed: the argument and state of the last commit (mounted: FALSE
\*              before the first one)
\*   fresh: what has replaced the state object since the last commit ("no":
\*          nothing, "load": the load effect, "toggle": a click came last)
\*   log: the last toggles since the state was loaded, each with the set it
\*        was applied to
NoMarks ==
    [available |-> TRUE,
     items |-> [v \in Videos |-> NoSegments],
     videoId |-> "A",
     highlights |-> NoSegments,
     committed |-> [mounted |-> FALSE, videoId |-> "A", highlights |-> NoSegments],
     fresh |-> "no",
     log |-> << >>]

\* a path of os.tmpdir(): bili_<videoId>_<Date.now()>.m4a; null is NoPath
Path(v, t) == [video |-> v, at |-> t]
NoPath == Path("none", 0)

\* no request is being handled and os.tmpdir() holds no audio file:
\*   pc: the await the handler is suspended at ("idle": not running,
\*       "returned": the response has been sent and finally has run)
\*   tempFilePath: POST's variable; tempFile: downloadBilibiliAudio's constant
\*   files: the audio files in os.tmpdir()
\*   status: the HTTP status of the response
\*   served: requests handled so far
NoRoute ==
    [pc |-> "idle", videoId |-> "none", tempFilePath |-> NoPath,
     tempFile |-> NoPath, files |-> {}, status |-> 0, served |-> 0]

\* the page is not mounted: only the services are exercised
InitServices ==
    /\ now = 0
    /\ health \in Healths
    /\ db = "closed"
    /\ store = {}
    /\ ret = NoRet
    /\ calls = [c \in Callers |-> IdleCall]
    /\ apiCalls = [v \in Videos |-> 0]
    /\ ui = InitUI("A")
    /\ rendered = InitUI("A")
    /\ procs = {}
    /\ navs = 0
    /\ hist = InitHist
    /\ track = NoTrack
    /\ player = NoPlayer
    /\ marks = NoMarks
    /\ route = NoRoute

restVars == << track, player, marks, route >>

pageVars == << ui, rendered, procs, navs, hist, restVars >>

\* =================================================== the clock

\* time passes
Tick ==
    /\ now < MaxNow
    /\ now' = now + 1
    /\ UNCHANGED << health, db, store, ret, calls, apiCalls, pageVars >>

\* =================================================== direct use of IndexedDBService

Ret(op, v, r) ==
    [op |-> op, videoId |-> v, at |-> now, threw |-> r.threw, value |-> r.value,
     count |-> r.count, total |-> r.total, expired |-> r.expired, arg |-> << >>,
     flag |-> FALSE]

\* entries a caller can hand to saveSubtitleCache
\* (timestamps as the service sets them, or stale ones of the caller's own)
Entries ==
    {[videoId |-> v, subtitles |-> subs, cachedAt |-> ts[1], expiresAt |-> ts[2],
      source |-> src, language |-> Lang] :
        v \in Videos, subs \in SegLists \cup {<< >>},
        ts \in {<< now, now + CACHE_TTL >>, << 0, now + 1 >>},
        src \in {Speech, Native}}

CacheDone(op, v, r) ==
    /\ store' = r.st
    /\ db' = r.d
    /\ ret' = Ret(op, v, r)
    /\ UNCHANGED << now, health, calls, apiCalls, pageVars >>

CachePut ==
    \E e \in Entries, fail \in Fails :
        LET r == saveSubtitleCache(e, store, db, now, fail) IN
        /\ store' = r.st
        /\ db' = r.d
        /\ ret' = [Ret("put", e.videoId, r) EXCEPT !.arg = e.subtitles]
        /\ UNCHANGED << now, health, calls, apiCalls, pageVars >>

CacheGet ==
    \E v \in Videos, fail \in Fails :
        CacheDone("get", v, loadSubtitleCache(v, store, db, now, fail))

CacheSweep ==
    \E fail \in Fails :
        CacheDone("sweepExpired", "none", clearExpiredCache(store, db, now, fail))

CacheRemove ==
    \E v \in Videos, fail \in Fails :
        CacheDone("remove", v, clearVideoCache(v, store, db, fail))

CacheClear ==
    \E fail \in Fails :
        CacheDone("clear", "none", clearAllCache(store, db, fail))

CacheStats ==
    \E fail \in Fails :
        CacheDone("stats", "none", getCacheStats(store, db, now, fail))

NextCache ==
    \/ Tick
    \/ CachePut
    \/ CacheGet
    \/ CacheSweep
    \/ CacheRemove
    \/ CacheClear
    \/ CacheStats

SpecCache == InitServices /\ [][NextCache]_vars

\* =================================================== direct use of SpeechRecognitionService

Finished(a) == a.pc \in {"idle", "done", "failed"}

SvcDone(c, a, st, d, api) ==
    /\ ApiTotal(api) <= MaxApiCalls
    /\ calls' = [calls EXCEPT ![c] = a]
    /\ store' = st
    /\ db' = d
    /\ apiCalls' = api
    /\ UNCHANGED << now, health, ret, pageVars >>

\* a caller invokes transcribeVideo({videoId, audioUrl, forceRefresh})
SvcStart ==
    \E c \in Callers, v \in Videos, fr \in BOOLEAN :
        /\ Finished(calls[c])
        /\ LET r == tvStart(v, fr, apiCalls) IN SvcDone(c, r.a, store, db, r.api)

\* getCachedResult answers
SvcCache ==
    \E c \in Callers, fail \in Fails :
        /\ calls[c].pc = "cache"
        /\ LET r == tvCache(calls[c], store, db, now, fail, apiCalls)
           IN SvcDone(c, r.a, r.st, r.d, r.api)

\* the transcription endpoint answers
SvcReply ==
    \E c \in Callers, out \in ApiOutcomes :
        /\ calls[c].pc = "fetch"
        /\ SvcDone(c, tvReply(calls[c], out), store, db, apiCalls)

\* cacheResult returns
SvcSave ==
    \E c \in Callers, fail \in Fails :
        /\ calls[c].pc = "save"
        /\ LET r == tvSave(calls[c], store, db, now, fail)
           IN SvcDone(c, r.a, r.st, r.d, apiCalls)

\* a caller invokes clearCache(videoId)
SvcClearCache ==
    \E v \in Videos, fail \in Fails :
        LET r == clearCache(v, store, db, fail) IN
        /\ store' = r.st
        /\ db' = r.d
        /\ UNCHANGED << now, health, ret, calls, apiCalls, pageVars >>

NextSvc ==
    \/ Tick
    \/ SvcStart
    \/ SvcCache
    \/ SvcReply
    \/ SvcSave
    \/ SvcClearCache

SpecSvc == InitServices /\ [][NextSvc]_vars

\* the service with its own continuations scheduled: a settled cache promise
\* resumes the call. Nothing obliges the endpoint to answer, so SvcReply is
\* not fair.
SpecSvcFair ==
    /\ InitServices
    /\ [][NextSvc]_vars
    /\ WF_vars(SvcCache)
    /\ WF_vars(SvcSave)

\* =================================================== cache lookups of the service

\* the outcome of a lookup, kept as the last operation
Looked(op, v, r, flag, value) ==
    /\ store' = r.st
    /\ db' = r.d
    /\ ret' = [NoRet EXCEPT !.op = op, !.videoId = v, !.at = now,
                            !.flag = flag, !.value = value]
    /\ UNCHANGED << now, health, calls, apiCalls, pageVars >>

\* a caller asks hasCachedResult(videoId)
SvcHasCached ==
    \E v \in Videos, fail \in Fails :
        LET r == hasCachedResult(v, store, db, now, fail) IN
        Looked("hasCachedResult", v, r, r.value, {})

\* a caller asks getCachedResult(videoId)
SvcGetCached ==
    \E v \in Videos, fail \in Fails :
        LET r == getCachedResult(v, store, db, now, fail) IN
        Looked("getCachedResult", v, r, FALSE, r.value)

\* the store is filled by any writer of the application (entries of either
\* source) and read through the service
NextLookup ==
    \/ CachePut
    \/ SvcHasCached
    \/ SvcGetCached

SpecLookup == InitServices /\ [][NextLookup]_vars

\* =================================================== a subtitle track

\* the values a field of a raw item can hold
FromValues == {Num(-1), Num(0), Num(2), NoNum}
ToValues == {Num(2), Num(3), NoNum}
ContentValues == {Str(<< " ", "a", " " >>), Str(<< " " >>), NoStr}
RawItems ==
    [from : FromValues, to : ToValues, content : ContentValues]

RECURSIVE SeqsUpTo(_, _)
SeqsUpTo(S, n) ==
    IF n = 0 THEN {<< >>}
    ELSE LET shorter == SeqsUpTo(S, n - 1) IN
         shorter \cup {Append(s, x) : s \in {q \in shorter : Len(q) = n - 1},
                                      x \in S}

\* what a route can receive where it expects an array
Bodies ==
    {[isArray |-> FALSE, items |-> << >>]} \cup
    {[isArray |-> TRUE, items |-> s] : s \in SeqsUpTo(RawItems, MaxBody)}

\* playback times fed to the sync hook
Times == {0, 2, 3}

\* verbose_json of Whisper: numeric start and end, string text, the segments
\* in the order of the audio and none ending before it starts
IsTranscription(b) ==
    \A k \in 1..Len(b.items) :
        /\ b.items[k].from.t = "number" /\ b.items[k].to.t = "number"
        /\ b.items[k].content.t = "string"
        /\ 0 <= b.items[k].from.v /\ b.items[k].from.v <= b.items[k].to.v
        /\ k > 1 => b.items[k - 1].from.v <= b.items[k].from.v

baseVars ==
    << now, health, db, store, ret, calls, apiCalls, ui, rendered, procs,
       navs, hist >>

appVars == << baseVars, player, marks, route >>

\* a raw array has arrived, nothing has processed it yet
InitTrack ==
    /\ now = 0
    /\ health = "ok"
    /\ db = "closed"
    /\ store = {}
    /\ ret = NoRet
    /\ calls = [c \in Callers |-> IdleCall]
    /\ apiCalls = [v \in Videos |-> 0]
    /\ ui = InitUI("A")
    /\ rendered = InitUI("A")
    /\ procs = {}
    /\ navs = 0
    /\ hist = InitHist
    /\ track \in {[NoTrack EXCEPT !.body = b] : b \in Bodies}
    /\ player = NoPlayer
    /\ marks = NoMarks
    /\ route = NoRoute

\* the array has been processed; the sync hook renders with the segments
\* (useMemo on [currentTime, subtitles])
Processed(via, code, segments) ==
    /\ track.via = "none"
    /\ track' = [track EXCEPT
                    !.via = via, !.code = code, !.segments = segments,
                    !.active = findActiveSubtitle(track.currentTime, segments)]
    /\ UNCHANGED appVars

\* a caller hands the array to parseSubtitles
TrackParse ==
    Processed("parse", "none", parseSubtitles(track.body))

\* the subtitles route answers for a subtitle file with this body
TrackSubtitles ==
    LET r == subtitlesRoute(track.body) IN
    Processed("subtitles", r.code, r.subtitles)

\* the transcribe route answers for a transcription with these segments
TrackTranscribe ==
    /\ IsTranscription(track.body)
    /\ Processed("transcribe", "none", parseWhisperResponse(track.body))

\* useSubtitleSync renders with a new currentTime over the segments received
TrackTimeUpdate ==
    \E t \in Times :
        /\ track.via # "none"
        /\ track.code = "none"
        /\ track' = [track EXCEPT
                        !.currentTime = t,
                        !.active = findActiveSubtitle(t, track.segments)]
        /\ UNCHANGED appVars

NextTrack ==
    \/ TrackParse
    \/ TrackSubtitles
    \/ TrackTranscribe
    \/ TrackTimeUpdate

SpecTrack == InitTrack /\ [][NextTrack]_vars

\* =================================================== hooks/useSubtitles.ts

\* an asynchronous function of the page suspended at an await:
\*   kind "meta": fetchVideo awaiting fetchVideoMetadata(video)
\*   kind "native": fetchSubtitles awaiting service.fetchSubtitles(video, cid)
\*   kind "fallback": fallbackToSpeechRecognition awaiting hasCachedResult
\*        (pc "hasCached") or getCachedResult (pc "getCached")
\*   kind "transcribe": triggerSpeechRecognition awaiting transcribeVideo,
\*        whose activation is a
Proc(kind, v, pc, a) ==
    [kind |-> kind, video |-> v, pc |-> pc, a |-> a]

\* fetchSubtitles() up to its first await, in a render whose state is s
fetchSubtitles(s, r) ==
    IF s.video.id = "none" \/ ~s.video.cid
    THEN r
    ELSE [u |-> [r.u EXCEPT !.isLoading = TRUE,
                            !.subtitleError = "none",
                            !.isSpeechRecognition = FALSE,
                            !.speechRecognitionStatus = "idle",
                            !.speechRecognitionProgress = 0],
          spawn |-> r.spawn \cup {Proc("native", s.video.id, "await", IdleCall)},
          fired |-> r.fired]

\* answers of service.fetchSubtitles: subtitle data, or the code of a BilibiliError
NativeOutcomes ==
    {"ok", "NO_SUBTITLES", "SUBTITLE_FETCH_FAILED", "SUBTITLE_PARSE_ERROR"}

\* a catch that falls back on every native error
TriggersFallbackOnAnyError(out) == out # "ok"

\* the catch of fetchSubtitles: err.code === 'NO_SUBTITLES'
TriggersFallback(out) == out = "NO_SUBTITLES"

\* fetchSubtitles resumed: try branch, or catch with err.code = out
fetchSubtitlesResumed(u, out) ==
    IF out = "ok"
    THEN [u EXCEPT !.subtitles = SegsNative, !.isLoading = FALSE]
    ELSE IF TriggersFallback(out)
    THEN \* fallbackToSpeechRecognition up to await hasCachedResult
         [u EXCEPT !.isSpeechRecognition = TRUE,
                   !.speechRecognitionStatus = "pending"]
    ELSE [u EXCEPT !.subtitleError = out, !.subtitles = << >>,
                   !.isLoading = FALSE]

\* a miss that leaves the loading flag as it is
fallbackMissKeepsLoading(u) ==
    [u EXCEPT !.speechRecognitionStatus = "pending",
              !.speechRecognitionProgress = 0,
              !.subtitleError = "NO_SUBTITLES"]

\* fallbackToSpeechRecognition: no usable cache, the parent has to transcribe
fallbackMiss(u) ==
    [u EXCEPT !.speechRecognitionStatus = "pending",
              !.speechRecognitionProgress = 0,
              !.isLoading = FALSE,
              !.subtitleError = "NO_SUBTITLES"]

\* fallbackToSpeechRecognition: cached subtitles found
fallbackHit(u, cached) ==
    [u EXCEPT !.subtitles = cached,
              !.speechRecognitionStatus = "completed",
              !.speechRecognitionProgress = 100,
              !.isLoading = FALSE]

\* =================================================== app/video/[videoId]/page.tsx

\* effect [videoId]: reset transcription state when video changes
resetTranscriptionState(s, r) ==
    [r EXCEPT !.u = [r.u EXCEPT !.hasAttemptedTranscription = FALSE,
                                !.transcriptionError = "none",
                                !.isNonRetryableError = FALSE]]

\* effect [videoId, setStoreError]: fetchVideo() up to its await
fetchVideo(s, r) ==
    [r EXCEPT !.u = [r.u EXCEPT !.isLoadingVideo = TRUE, !.error = "none"],
              !.spawn = r.spawn \cup {Proc("meta", s.videoId, "await", IdleCall)}]

\* answers of fetchVideoMetadata: a video with or without cid, or an error code
MetaOutcomes == {"ok", "nocid", "VIDEO_NOT_FOUND"}

\* fetchVideo resumed
fetchVideoResumed(u, v, out) ==
    IF out = "ok"
    THEN [u EXCEPT !.video = [id |-> v, cid |-> TRUE], !.isLoadingVideo = FALSE]
    ELSE IF out = "nocid"
    THEN [u EXCEPT !.video = [id |-> v, cid |-> FALSE], !.isLoadingVideo = FALSE]
    ELSE [u EXCEPT !.error = out, !.isLoadingVideo = FALSE]

\* guards that do not look at isTranscribing
TriggerGuardIgnoresBusy(s) ==
    /\ ~ ( \/ s.video.id = "none"
           \/ ~s.isSpeechRecognition
           \/ s.speechRecognitionStatus = "completed"
           \/ s.hasAttemptedTranscription
           \/ s.isNonRetryableError )
    /\ s.subtitleError = "NO_SUBTITLES"
    /\ s.speechRecognitionStatus = "pending"

\* the guards of triggerSpeechRecognition, on the values of the render
TriggerGuard(s) ==
    /\ ~ ( \/ s.video.id = "none"
           \/ ~s.isSpeechRecognition
           \/ s.isTranscribing
           \/ s.speechRecognitionStatus = "completed"
           \/ s.hasAttemptedTranscription
           \/ s.isNonRetryableError )
    /\ s.subtitleError = "NO_SUBTITLES"
    /\ s.speechRecognitionStatus = "pending"

\* effect: triggerSpeechRecognition() up to await transcribeVideo
triggerSpeechRecognition(s, r) ==
    IF ~TriggerGuard(s)
    THEN r
    ELSE [u |-> [r.u EXCEPT !.isTranscribing = TRUE,
                            !.transcriptionError = "none",
                            !.hasAttemptedTranscription = TRUE],
          spawn |-> r.spawn \cup
                    {Proc("transcribe", s.video.id, "await",
                          tvStart(s.video.id, FALSE, apiCalls).a)},
          fired |-> TRUE]

\* the catch and finally of triggerSpeechRecognition
IsTerminal(err) ==
    err.kind = "http" /\ (err.retryable = FALSE \/ err.status = 501)

triggerResumed(u, a) ==
    IF a.pc = "failed"
    THEN [u EXCEPT !.isNonRetryableError = IF IsTerminal(a.err) THEN TRUE ELSE @,
                   !.transcriptionError = "message",
                   !.isTranscribing = FALSE]
    ELSE [u EXCEPT !.isTranscribing = FALSE]

\* handleRetryTranscription
handleRetryTranscription(u) ==
    [u EXCEPT !.hasAttemptedTranscription = FALSE, !.transcriptionError = "none"]

\* handleDismissError
handleDismissError(u) ==
    [u EXCEPT !.error = "none", !.transcriptionError = "none"]

\* dependency arrays of the effects
SubtitleDeps(s) == << s.video.id, s.video.cid >>
TriggerDeps(s) ==
    << s.video, s.isSpeechRecognition, s.subtitleError,
       s.speechRecognitionStatus, s.isTranscribing,
       s.hasAttemptedTranscription, s.isNonRetryableError >>

\* the effects of one commit, in the order the hooks are declared, each run
\* when its dependencies differ from those of the previous render
RunEffects(s, prev) ==
    LET r0 == [u |-> s, spawn |-> {}, fired |-> FALSE]
        r1 == IF SubtitleDeps(s) # SubtitleDeps(prev)
              THEN fetchSubtitles(s, r0) ELSE r0
        r2 == IF s.videoId # prev.videoId
              THEN resetTranscriptionState(s, r1) ELSE r1
        r3 == IF s.videoId # prev.videoId THEN fetchVideo(s, r2) ELSE r2
        r4 == IF TriggerDeps(s) # TriggerDeps(prev)
              THEN triggerSpeechRecognition(s, r3) ELSE r3
    IN r4

\* the views of the page
MainView(r) == ~r.isLoadingVideo /\ ~(r.error # "none" /\ r.video.id = "none")
RetryButtonShown(r) == MainView(r) /\ r.transcriptionError # "none"
ErrorMessageShown(r) ==
    \/ ~r.isLoadingVideo /\ r.error # "none" /\ r.video.id = "none"
    \/ MainView(r) /\ (r.error # "none" \/ r.subtitleError # "none")

\* =================================================== the mounted page

\* VideoPage mounted for route param v: the mount effects have run
\* (fetchVideo is in flight; the other effects found nothing to do)
InitPage ==
    /\ now = 0
    /\ health \in Healths
    /\ db = "closed"
    /\ store = {}
    /\ ret = NoRet
    /\ calls = [c \in Callers |-> IdleCall]
    /\ apiCalls = [v \in Videos |-> 0]
    /\ \E v \in {"A"} :
          /\ ui = InitUI(v)
          /\ rendered = InitUI(v)
          /\ procs = {Proc("meta", v, "await", IdleCall)}
    /\ navs = 0
    /\ hist = InitHist
    /\ track = NoTrack
    /\ player = NoPlayer
    /\ marks = NoMarks
    /\ route = NoRoute

svcVars == << now, health, ret, calls >>

\* React renders the latest state and runs the effects of the commit
Render ==
    /\ ui # rendered
    /\ LET r == RunEffects(ui, rendered) IN
          /\ ui' = r.u
          /\ rendered' = ui
          /\ procs' = procs \cup r.spawn
          /\ hist' = IF r.fired THEN [hist EXCEPT !.retryFor = "none"] ELSE hist
    /\ UNCHANGED << svcVars, restVars, db, store, apiCalls, navs >>

\* the route param videoId changes
Navigate ==
    \E v \in Videos :
        /\ navs < MaxNav
        /\ v # ui.videoId
        /\ ui' = [ui EXCEPT !.videoId = v]
        /\ navs' = navs + 1
        /\ hist' = [hist EXCEPT !.retryFor = "none", !.transcribed = "none"]
        /\ UNCHANGED << svcVars, restVars, db, store, apiCalls, rendered, procs >>

\* fetchVideoMetadata answers
MetaReply ==
    \E p \in procs, out \in MetaOutcomes :
        /\ p.kind = "meta"
        /\ ui' = fetchVideoResumed(ui, p.video, out)
        /\ procs' = procs \ {p}
        /\ UNCHANGED << svcVars, restVars, db, store, apiCalls, rendered, navs, hist >>

\* service.fetchSubtitles answers
NativeReply ==
    \E p \in procs, out \in NativeOutcomes :
        /\ p.kind = "native"
        /\ ui' = fetchSubtitlesResumed(ui, out)
        /\ procs' = (procs \ {p}) \cup
                    (IF TriggersFallback(out)
                     THEN {[p EXCEPT !.kind = "fallback", !.pc = "hasCached"]}
                     ELSE {})
        /\ hist' = [hist EXCEPT !.native[p.video] = out]
        /\ UNCHANGED << svcVars, restVars, db, store, apiCalls, rendered, navs >>

\* hasCachedResult answers in fallbackToSpeechRecognition
FallbackHasCached ==
    \E p \in procs, fail \in Fails :
        /\ p.kind = "fallback" /\ p.pc = "hasCached"
        /\ LET r == hasCachedResult(p.video, store, db, now, fail) IN
              /\ store' = r.st
              /\ db' = r.d
              /\ IF r.value
                 THEN /\ procs' = (procs \ {p}) \cup {[p EXCEPT !.pc = "getCached"]}
                      /\ UNCHANGED << ui, hist >>
                 ELSE /\ procs' = procs \ {p}
                      /\ ui' = fallbackMiss(ui)
                      /\ hist' = [hist EXCEPT !.cacheMissed = @ \cup {p.video}]
        /\ UNCHANGED << svcVars, restVars, apiCalls, rendered, navs >>

\* getCachedResult answers in fallbackToSpeechRecognition
FallbackGetCached ==
    \E p \in procs, fail \in Fails :
        /\ p.kind = "fallback" /\ p.pc = "getCached"
        /\ LET r == getCachedResult(p.video, store, db, now, fail) IN
              /\ store' = r.st
              /\ db' = r.d
              /\ procs' = procs \ {p}
              /\ IF r.value # {}
                 THEN /\ ui' = fallbackHit(ui, CHOOSE c \in r.value : TRUE)
                      /\ UNCHANGED hist
                 ELSE /\ ui' = fallbackMiss(ui)
                      /\ hist' = [hist EXCEPT !.cacheMissed = @ \cup {p.video}]
        /\ UNCHANGED << svcVars, restVars, apiCalls, rendered, navs >>

\* the page's transcribeVideo call advanced to activation a; when it has
\* returned or thrown, triggerSpeechRecognition resumes
PageCall(p, a) ==
    IF Finished(a)
    THEN /\ procs' = procs \ {p}
         /\ ui' = triggerResumed(ui, a)
    ELSE /\ procs' = (procs \ {p}) \cup {[p EXCEPT !.a = a]}
         /\ UNCHANGED ui

\* getCachedResult answers in the page's transcribeVideo call
PageCache ==
    \E p \in procs, fail \in Fails :
        /\ p.kind = "transcribe" /\ p.a.pc = "cache"
        /\ LET r == tvCache(p.a, store, db, now, fail, apiCalls) IN
              /\ ApiTotal(r.api) <= MaxApiCalls
              /\ store' = r.st
              /\ db' = r.d
              /\ apiCalls' = r.api
              /\ PageCall(p, r.a)
        /\ UNCHANGED << svcVars, restVars, rendered, navs, hist >>

\* the transcription endpoint answers the page's call
PageReply ==
    \E p \in procs, out \in ApiOutcomes :
        /\ p.kind = "transcribe" /\ p.a.pc = "fetch"
        /\ LET a == tvReply(p.a, out) IN
              /\ PageCall(p, a)
              /\ hist' = IF a.pc = "failed" /\ IsTerminal(a.err)
                         THEN [hist EXCEPT !.terminal = @ \cup {p.video}]
                         ELSE hist
        /\ UNCHANGED << svcVars, restVars, db, store, apiCalls, rendered, navs >>

\* cacheResult returns in the page's transcribeVideo call
PageSave ==
    \E p \in procs, fail \in Fails :
        /\ p.kind = "transcribe" /\ p.a.pc = "save"
        /\ LET r == tvSave(p.a, store, db, now, fail) IN
              /\ store' = r.st
              /\ db' = r.d
              /\ PageCall(p, r.a)
        /\ hist' = [hist EXCEPT
                        !.transcribed = p.video,
                        !.lastOk = {o \in @ : o.videoId # p.video} \cup
                                   {[videoId |-> p.video,
                                     subtitles |-> p.a.subtitles, at |-> now]}]
        /\ UNCHANGED << svcVars, restVars, apiCalls, rendered, navs >>

\* the user clicks the retry button of the transcription error
RetryClick ==
    /\ RetryButtonShown(rendered)
    /\ ui' = handleRetryTranscription(ui)
    /\ hist' = [hist EXCEPT !.terminal = {},
                            !.retryFor = IF ui.isNonRetryableError
                                         THEN ui.video.id ELSE @]
    /\ UNCHANGED << svcVars, restVars, db, store, apiCalls, rendered, procs, navs >>

\* the user closes the transcription error
DismissTranscriptionError ==
    /\ RetryButtonShown(rendered)
    /\ ui' = [ui EXCEPT !.transcriptionError = "none"]
    /\ UNCHANGED << svcVars, restVars, db, store, apiCalls, rendered, procs, navs, hist >>

\* the user dismisses the ErrorMessage
DismissError ==
    /\ ErrorMessageShown(rendered)
    /\ ui' = handleDismissError(ui)
    /\ UNCHANGED << svcVars, restVars, db, store, apiCalls, rendered, procs, navs, hist >>

NextPage ==
    \/ Render
    \/ Navigate
    \/ MetaReply
    \/ NativeReply
    \/ FallbackHasCached
    \/ FallbackGetCached
    \/ PageCache
    \/ PageReply
    \/ PageSave
    \/ RetryClick
    \/ DismissTranscriptionError
    \/ DismissError

SpecPage == InitPage /\ [][NextPage]_vars

\* =================================================== page loads

\* the page is loaded afresh for video v (a reload or a new visit): the React
\* state and the pending continuations are gone, the IndexedDB store stays
Reload ==
    \E v \in Videos :
        /\ navs < MaxReload
        /\ navs' = navs + 1
        /\ ui' = InitUI(v)
        /\ rendered' = InitUI(v)
        /\ procs' = {Proc("meta", v, "await", IdleCall)}
        /\ hist' = [InitHist EXCEPT !.lastOk = hist.lastOk]
        /\ db' = "closed"
        /\ UNCHANGED << now, health, store, ret, calls, apiCalls, restVars >>

\* what InitPage is for any first video
InitSession ==
    /\ now = 0
    /\ health \in Healths
    /\ db = "closed"
    /\ store = {}
    /\ ret = NoRet
    /\ calls = [c \in Callers |-> IdleCall]
    /\ apiCalls = [v \in Videos |-> 0]
    /\ \E v \in Videos :
          /\ ui = InitUI(v)
          /\ rendered = InitUI(v)
          /\ procs = {Proc("meta", v, "await", IdleCall)}
    /\ navs = 0
    /\ hist = InitHist
    /\ track = NoTrack
    /\ player = NoPlayer
    /\ marks = NoMarks
    /\ route = NoRoute

NextSession ==
    \/ Tick
    \/ Reload
    \/ Render
    \/ MetaReply
    \/ NativeReply
    \/ FallbackHasCached
    \/ FallbackGetCached
    \/ PageCache
    \/ PageReply
    \/ PageSave
    \/ RetryClick
    \/ DismissTranscriptionError
    \/ DismissError

SpecSession == InitSession /\ [][NextSession]_vars

\* =================================================== properties

\* C1: two transcribeVideo calls for the same video that overlap result in one
\* invocation of the transcription endpoint: at no time are two POSTs for the
\* same video outstanding (calls without forceRefresh).
C1_SingleFlight ==
    \A v \in Videos :
        Cardinality({c \in Callers : /\ calls[c].videoId = v
                                     /\ ~calls[c].forceRefresh
                                     /\ calls[c].pc = "fetch"}) <= 1

\* C2: once a transcription of a video has failed terminally, no step issues
\* another POST for that video until the user clicks retry.
C2_NoAutoRetry ==
    [][\A v \in hist.terminal : apiCalls'[v] = apiCalls[v]]_vars

\* C3: a retry click after a terminal failure clears the remembered terminal
\* state, and the render that follows it starts a transcription.
C3_RetryRetranscribes ==
    hist.retryFor # "none" => (~ui.isNonRetryableError /\ ui # rendered)

\* C4: loadSubtitleCache never returns an entry with expiresAt <= now.
C4_GetNeverExpired ==
    ret.op = "get" => \A e \in ret.value : ret.at < e.expiresAt

C6_ReachesCompleted ==
    ( /\ hist.transcribed # "none"
      /\ ui.video.id = hist.transcribed
      /\ procs = {}
      /\ ui = rendered )
    => ui.speechRecognitionStatus = "completed"

\* C7: a POST for a video is issued only after the native fetch of that video
\* answered NO_SUBTITLES and the hook's cache lookup for that video missed.
C7_NativeThenCacheThenApi ==
    [][\A v \in Videos :
          apiCalls'[v] > apiCalls[v] =>
              (hist.native[v] = "NO_SUBTITLES" /\ v \in hist.cacheMissed)]_vars

\* C8: when a native fetch is answered, the fallback starts only if the answer
\* is NO_SUBTITLES; on any other error the hook exposes that error code with no
\* subtitles and stops loading, and the step reads no cache and issues no POST.
C8_OnlyAbsenceFallsBack ==
    [][\A p \in procs :
          (p.kind = "native" /\ p \notin procs') =>
              LET out == hist'.native[p.video] IN
              /\ (\E q \in procs' \ procs : q.kind = "fallback")
                     => out = "NO_SUBTITLES"
              /\ out \in NativeOutcomes \ {"ok", "NO_SUBTITLES"} =>
                     /\ ui'.subtitleError = out
                     /\ ui'.subtitles = << >>
                     /\ ~ui'.isLoading
                     /\ procs' = procs \ {p}
                     /\ store' = store /\ db' = db /\ apiCalls' = apiCalls]_vars

C8_Witness ==
    /\ ui.subtitleError = "SUBTITLE_FETCH_FAILED"
    /\ ui.video.id # "none"
    /\ hist.native[ui.video.id] = "SUBTITLE_FETCH_FAILED"
    /\ ~ui.isSpeechRecognition
    /\ apiCalls[ui.video.id] = 0

\* C9: with a healthy store, after a transcription of a video succeeded and
\* until its TTL has elapsed, no step issues a POST for that video, and every
\* cache lookup of the hook for it ends with the transcribed segments and the
\* status completed (progress 100).
C9_CachedAfterTranscription ==
    [][\A o \in hist.lastOk :
          (health = "ok" /\ now < o.at + CACHE_TTL) =>
              /\ apiCalls'[o.videoId] = apiCalls[o.videoId]
              /\ \A p \in procs :
                    ( /\ p.kind = "fallback" /\ p.video = o.videoId
                      /\ p \notin procs' /\ navs' = navs ) =>
                        IF p.pc = "hasCached"
                        THEN [p EXCEPT !.pc = "getCached"] \in procs'
                        ELSE /\ ui'.subtitles = o.subtitles
                             /\ ui'.speechRecognitionStatus = "completed"
                             /\ ui'.speechRecognitionProgress = 100]_vars

C9_Witness ==
    \E o \in hist.lastOk :
        /\ navs > 0
        /\ health = "ok"
        /\ now < o.at + CACHE_TTL
        /\ ui.video.id = o.videoId
        /\ hist.native[o.videoId] = "NO_SUBTITLES"
        /\ ui.speechRecognitionStatus = "completed"
        /\ ui.subtitles = o.subtitles
        /\ apiCalls[o.videoId] = 1

\* C10: with a healthy store, a transcribeVideo call without forceRefresh that
\* reads the cache while it holds a speech entry with now < expiresAt returns
\* that entry's subtitles with cached = true and issues no POST.
C10_CacheHitNoApi ==
    [][\A c \in Callers :
          (calls[c].pc = "cache" /\ calls'[c] # calls[c] /\ health = "ok") =>
              \A e \in EntryOf(store, calls[c].videoId) :
                  (e.source = Speech /\ now < e.expiresAt) =>
                      /\ calls'[c].pc = "done"
                      /\ calls'[c].cached
                      /\ calls'[c].subtitles = e.subtitles
                      /\ apiCalls' = apiCalls]_vars

C10_Witness ==
    \E c \in Callers :
        /\ calls[c].pc = "done"
        /\ calls[c].cached
        /\ ~calls[c].forceRefresh
        /\ apiCalls[calls[c].videoId] = 1

\* C11: a transcribeVideo call with forceRefresh = true goes straight to the
\* POST: it issues one request, reads neither the store nor the database, is
\* never at the cache check and never returns cached = true, whatever the store
\* holds.
C11_ForceRefreshSkipsCache ==
    [][\A c \in Callers :
          /\ calls'[c].forceRefresh =>
                 (calls'[c].pc # "cache" /\ ~calls'[c].cached)
          /\ ( /\ Finished(calls[c]) /\ calls'[c] # calls[c]
               /\ calls'[c].forceRefresh ) =>
                 /\ calls'[c].pc = "fetch"
                 /\ apiCalls'[calls'[c].videoId] = apiCalls[calls'[c].videoId] + 1
                 /\ store' = store
                 /\ db' = db]_vars

C11_Witness ==
    \E c \in Callers :
        /\ health = "ok"
        /\ calls[c].forceRefresh
        /\ calls[c].pc = "fetch"
        /\ \E e \in EntryOf(store, calls[c].videoId) :
              e.source = Speech /\ now < e.expiresAt

C13_Classification ==
    \A c \in Callers :
        calls[c].pc = "failed" =>
            LET err == calls[c].err IN
            /\ ( /\ err.kind = "http"
                 /\ \E k \in {"malformed_request", "not_configured",
                              "not_implemented"} : RouteStatus(k) = err.status )
               => (IsTerminal(err) /\ ~err.retryable)
            /\ ( \/ err.kind = "network"
                 \/ /\ err.kind = "http"
                    /\ \E k \in {"rate_limited", "server_error"} :
                          RouteStatus(k) = err.status )
               => (~IsTerminal(err) /\ err.retryable)

\* C14: a call that awaits the POST does not await it forever: even if the
\* endpoint never answers, the call leaves that state.
C14_TimeoutBounds ==
    \A c \in Callers : (calls[c].pc = "fetch") ~> (calls[c].pc # "fetch")

\* C15: with a healthy store, a loadSubtitleCache that follows a completed
\* saveSubtitleCache for the same video before the TTL has elapsed returns an
\* entry with exactly the subtitles that were saved.
C15_PutThenGet ==
    [][( /\ health = "ok"
         /\ ret.op = "put" /\ ret.threw = NoErr
         /\ ret'.op = "get" /\ ret'.videoId = ret.videoId
         /\ now < ret.at + CACHE_TTL )
       => ( /\ ret'.threw = NoErr
            /\ {e.subtitles : e \in ret'.value} = {ret.arg} )]_vars

C15_Witness ==
    /\ health = "ok"
    /\ ret.op = "get"
    /\ \E e \in ret.value : e.cachedAt < ret.at /\ e.subtitles = SegsHi

C17_GetEvictsExpired ==
    [][( /\ health = "ok" /\ ret'.op = "get" /\ now' = now )
       => \A e \in EntryOf(store, ret'.videoId) :
             e.expiresAt <= now =>
                 /\ e \notin store'
                 /\ getCacheStats(store', db', now, FALSE).total =
                        getCacheStats(store, db', now, FALSE).total - 1]_vars

\* C18: whatever the state of IndexedDB, no transcribeVideo call fails with an
\* error of the cache: when the store cannot be read the cache check is a miss
\* and the POST is issued, and the save step always ends the call with its
\* subtitles and cached = false.
C18_CacheFailuresHidden ==
    [][\A c \in Callers :
          /\ calls'[c].pc = "failed" => calls'[c].err.kind \in {"http", "network"}
          /\ ( /\ calls[c].pc = "cache" /\ calls'[c] # calls[c]
               /\ health \in {"unsupported", "openfails"} ) =>
                 /\ calls'[c].pc = "fetch"
                 /\ apiCalls'[calls[c].videoId] = apiCalls[calls[c].videoId] + 1
          /\ (calls[c].pc = "save" /\ calls'[c] # calls[c]) =>
                 /\ calls'[c].pc = "done"
                 /\ ~calls'[c].cached
                 /\ calls'[c].subtitles = calls[c].subtitles]_vars

C18_Witness ==
    \E c \in Callers :
        /\ health = "openfails"
        /\ calls[c].pc = "done"
        /\ ~calls[c].cached
        /\ calls[c].subtitles = SegsHi
        /\ store = {}

\* C19: when IndexedDB is not available, saveSubtitleCache rejects with
\* INDEXEDDB_NOT_AVAILABLE, opens no database and stores nothing.
C19_PutRejectsUnavailable ==
    (ret.op = "put" /\ health = "unsupported") =>
        /\ ret.threw = "INDEXEDDB_NOT_AVAILABLE"
        /\ store = {}
        /\ db = "closed"

C19_Witness ==
    /\ health = "unsupported"
    /\ ret.op = "put"
    /\ ret.arg = SegsHi
    /\ ret.threw = "INDEXEDDB_NOT_AVAILABLE"
    /\ now > 0

C21_NativeNeverReported ==
    \A v \in Videos :
        (ret.videoId = v /\ \E e \in EntryOf(store, v) : e.source # Speech) =>
            /\ ret.op = "hasCachedResult" => ret.flag = FALSE
            /\ ret.op = "getCachedResult" => ret.value = {}

\* hasCachedResult has answered for a video whose stored entry is native,
\* unexpired and holds subtitles, on a working store
C21_Witness ==
    /\ ret.op = "hasCachedResult"
    /\ health = "ok"
    /\ ret.flag = FALSE
    /\ \E e \in EntryOf(store, ret.videoId) :
           e.source = Native /\ e.subtitles # << >> /\ now < e.expiresAt

\* ---------------------------------------------------------------- segments

Sorted(segments) ==
    \A k \in 1..Len(segments) - 1 :
        segments[k].startTime <= segments[k + 1].startTime

Covers(seg, t) == seg.startTime <= t /\ t < seg.endTime

\* the items the specification lets through: from and to numeric, from >= 0,
\* to > from, content a string that is not empty once trimmed
Acceptable(item) ==
    /\ item.from.t = "number" /\ item.to.t = "number"
    /\ item.from.v >= 0
    /\ item.to.v > item.from.v
    /\ item.content.t = "string" /\ Trim(item.content.v) # << >>

WellFormed(seg) ==
    seg.startTime >= 0 /\ seg.endTime > seg.startTime /\ seg.text # << >>

\* C22: for a segment list sorted by startTime and any time t, the active
\* segment is the first segment of the list with startTime <= t < endTime,
\* and null when no segment covers t; it depends on (t, segments) alone.
C22_ActiveIsFirstMatch ==
    (track.via # "none" /\ Sorted(track.segments)) =>
        LET covering == {k \in 1..Len(track.segments) :
                            Covers(track.segments[k], track.currentTime)}
        IN IF covering = {}
           THEN track.active = {}
           ELSE \E k \in covering :
                   /\ \A j \in covering : k <= j
                   /\ track.active = {track.segments[k]}

\* two sorted segments both cover the current time and the first is active
C22_Witness ==
    /\ track.via = "subtitles"
    /\ Len(track.segments) = 2
    /\ Sorted(track.segments)
    /\ track.segments[1].startTime < track.segments[2].startTime
    /\ Covers(track.segments[1], track.currentTime)
    /\ Covers(track.segments[2], track.currentTime)
    /\ track.active = {track.segments[1]}

\* C23: parseSubtitles keeps exactly the acceptable items, in input order, as
\* segments with their from, to and trimmed content; every other item is
\* dropped and nothing is raised.
C23_ParseKeepsAcceptable ==
    track.via = "parse" =>
        LET kept == SelectSeq(track.body.items, Acceptable) IN
        /\ track.code = "none"
        /\ Len(track.segments) = Len(kept)
        /\ \A k \in 1..Len(kept) :
               /\ track.segments[k].startTime = kept[k].from.v
               /\ track.segments[k].endTime = kept[k].to.v
               /\ track.segments[k].text = Trim(kept[k].content.v)

\* parseSubtitles has dropped an item whose to equals its from and kept the
\* padded item after it
C23_Witness ==
    /\ track.via = "parse"
    /\ Len(track.body.items) = 2
    /\ track.body.items[1].from.t = "number"
    /\ track.body.items[1].to = track.body.items[1].from
    /\ track.body.items[1].content.t = "string"
    /\ Len(track.segments) = 1
    /\ track.segments[1].text = << "a" >>

\* C24: the segments returned by parseSubtitles are numbered densely from 0:
\* the k-th kept item has index k and id subtitle-k, so the ids are unique
\* even when earlier items were dropped.
C24_DenseNumbering ==
    track.via \in {"parse", "subtitles"} =>
        /\ \A k \in 1..Len(track.segments) :
               /\ track.segments[k].index = k - 1
               /\ track.segments[k].id = SubtitleId(k - 1)
        /\ \A j, k \in 1..Len(track.segments) :
               track.segments[j].id = track.segments[k].id => j = k

\* the first item was dropped for its blank content and the second is
\* segment 0
C24_Witness ==
    /\ track.via = "parse"
    /\ Len(track.body.items) = 2
    /\ track.body.items[1].content = Str(<< " " >>)
    /\ Len(track.segments) = 1
    /\ track.segments[1].index = 0
    /\ track.segments[1].startTime = track.body.items[2].from.v

\* C25: a raw array in which only some items are malformed does not fail
\* the resolution: the subtitles route raises no error and answers with the
\* acceptable items as segments.
C25_PartialInputNeverFails ==
    (/\ track.via = "subtitles"
     /\ track.body.isArray
     /\ \E k \in 1..Len(track.body.items) : Acceptable(track.body.items[k]))
    => /\ track.code = "none"
       /\ track.segments = parseSubtitles(track.body)

\* C26: the segment list held for a video is sorted ascending by startTime,
\* whichever function produced it.
C26_SegmentsSorted ==
    (track.via # "none" /\ track.code = "none") => Sorted(track.segments)

\* C27: every segment handed on by a route, native or speech-sourced, has
\* startTime >= 0, endTime > startTime and a non-empty trimmed text.
C27_SegmentsWellFormed ==
    (track.via \in {"subtitles", "transcribe"} /\ track.code = "none") =>
        \A k \in 1..Len(track.segments) : WellFormed(track.segments[k])

\* C28: every entry stored in the cache has a non-empty segment list: a
\* transcription that yields zero segments is never cached and never served
\* as a cache hit.
C28_NoEmptyEntry ==
    /\ \A e \in store : e.subtitles # << >>
    /\ \A c \in Callers :
           (calls[c].pc = "done" /\ calls[c].cached) => calls[c].subtitles # << >>

\* C29: when the transcription call of the page fails, the status exposed to
\* the UI becomes failed; it does not stay pending or processing.
C29_FailureExposed ==
    [][(/\ ui.isTranscribing
        /\ ~ui'.isTranscribing
        /\ ui'.transcriptionError # "none")
       => ui'.speechRecognitionStatus = "failed"]_vars

\* C30: when the resolution ends without error and no transcription was
\* attempted (native segments, or a cache hit), the exposed status is
\* completed with progress 100 at once.
C30_CompletedAtOnce ==
    [][(/\ ui.isLoading
        /\ ~ui'.isLoading
        /\ ui'.subtitleError = "none"
        /\ ~ui'.hasAttemptedTranscription)
       => (/\ ui'.speechRecognitionStatus = "completed"
           /\ ui'.speechRecognitionProgress = 100)]_vars

\* C36: loadSubtitleCache, clearExpiredCache and getCacheStats agree on what
\* is expired: an entry returned by a get at time now is not one that a sweep
\* at the same time would delete, nor one that the stats count as expired.
C36_ExpiryAgreed ==
    ret.op = "get" =>
        \A e \in ret.value :
            /\ e \in clearExpiredCache({e}, "open", ret.at, FALSE).st
            /\ getCacheStats({e}, "open", ret.at, FALSE).expired = 0

\* C31: transcription state is per video: when a transcription started for
\* one video ends after another video was selected and the switch has reset
\* the page's transcription state, its outcome (error message, terminal flag)
\* is not recorded in that state, so it cannot block the selected video's
\* transcription.
C31_OutcomePerVideo ==
    [][\A p \in procs :
          (/\ p.kind = "transcribe"
           /\ p \notin procs'
           /\ p.video # ui.videoId
           /\ rendered.videoId = ui.videoId)
          => (/\ ui'.transcriptionError = ui.transcriptionError
              /\ ui'.isNonRetryableError = ui.isNonRetryableError)]_vars

\* C32: what the hook exposes belongs to the video requested last: an answer
\* (native fetch or cache lookup) for a video other than the one the hook was
\* last started for does not overwrite the exposed segments, error, status or
\* loading state.
C32_LateAnswerIgnored ==
    [][\A p \in procs :
          (/\ p.kind \in {"native", "fallback"}
           /\ p \notin procs'
           /\ rendered.video.id # "none"
           /\ p.video # rendered.video.id)
          => (/\ ui'.subtitles = ui.subtitles
              /\ ui'.subtitleError = ui.subtitleError
              /\ ui'.speechRecognitionStatus = ui.speechRecognitionStatus
              /\ ui'.isSpeechRecognition = ui.isSpeechRecognition
              /\ ui'.isLoading = ui.isLoading)]_vars

\* ---------------------------------------------------------------- attempts

Transcriptions(ps) == {p \in ps : p.kind = "transcribe"}

\* C37: the page has at most one transcribeVideo call outstanding; a call is
\* started only by a render that finds no call running and the attempt not
\* yet made, and it marks the attempt as made; each call issues at most one
\* POST, when it leaves its cache check.
C37_OneRequestPerAttempt ==
    [][/\ Cardinality(Transcriptions(procs')) <= 1
       /\ (~ui.isTranscribing /\ ui'.isTranscribing) => Transcriptions(procs) = {}
       /\ \A p \in Transcriptions(procs') :
              \/ \E q \in Transcriptions(procs) : q.video = p.video
              \/ (/\ Transcriptions(procs) = {}
                  /\ p.a.pc = "cache"
                  /\ ~ui.isTranscribing
                  /\ ~ui.hasAttemptedTranscription
                  /\ ui'.isTranscribing
                  /\ ui'.hasAttemptedTranscription
                  /\ apiCalls' = apiCalls)
       /\ ApiTotal(apiCalls') # ApiTotal(apiCalls) =>
              /\ ApiTotal(apiCalls') = ApiTotal(apiCalls) + 1
              /\ \E q \in Transcriptions(procs) :
                     /\ q.a.pc = "cache"
                     /\ apiCalls' = Bump(apiCalls, q.video)
                     /\ Transcriptions(procs') = {[q EXCEPT !.a.pc = "fetch"]}
      ]_vars

\* after a switch of video a second request of the page is outstanding, alone
C37_Witness ==
    /\ navs = 1
    /\ ApiTotal(apiCalls) = 2
    /\ \E p \in procs : p.kind = "transcribe" /\ p.a.pc = "fetch"
    /\ Cardinality(Transcriptions(procs)) = 1

\* =================================================== hooks/useVideoPlayer.ts

PlaybackTimes == 0 .. MaxTime

\* the function debounce(func, delay) returns, called with args: a pending
\* timer is cleared and a new one is set
debounced(p, time) ==
    [p EXCEPT !.timeoutId = "timer", !.left = DEBOUNCE_DELAY, !.args = time]

\* videoStore.updateTime
updateTime(p, time) == [p EXCEPT !.currentTime = time]

\* the player reports playback position time: handleTimeUpdate of the page
\* calls setCurrentTime, which calls the debounced update
HandleTimeUpdate ==
    \E time \in PlaybackTimes :
        /\ player' = debounced(player, time)
        /\ UNCHANGED << baseVars, track, marks, route >>

\* 50 ms pass; a timer that is due runs before more time passes
Elapse ==
    /\ player.left > 0
    /\ player' = [player EXCEPT !.left = @ - 1]
    /\ UNCHANGED << baseVars, track, marks, route >>

\* the timer set by debounce fires: func(...args)
TimerFires ==
    /\ player.left = 0
    /\ player' = [updateTime(player, player.args) EXCEPT !.left = -1]
    /\ UNCHANGED << baseVars, track, marks, route >>

\* the page shows a video, the player has reported no position yet
InitPlayer ==
    /\ InitServices
    /\ health = "ok"

NextPlayer ==
    \/ HandleTimeUpdate
    \/ Elapse
    \/ TimerFires

\* the page plays a video: time passes, and a timer that keeps coming due is
\* run by the event loop
SpecPlayer ==
    /\ InitPlayer
    /\ [][NextPlayer]_vars
    /\ WF_vars(Elapse)
    /\ SF_vars(TimerFires)

\* C33: every playback position fed by the player is eventually reflected in
\* the store's currentTime, by its own value or by that of a later tick: a
\* tick that waits in the debounce is eventually delivered, however close
\* together the ticks arrive.
C33_TickReflected ==
    (player.left >= 0) ~> (player.left = -1 /\ player.currentTime = player.args)

\* =================================================== hooks/useHighlights.ts

\* the ids of the segments the page lists
SegmentIds == {"s0", "s1", "s2"}

\* an updater that only ever adds the segment
toggleHighlightAddsOnly(prev, segmentId) == prev \cup {segmentId}

\* the updater of toggleHighlight, applied to the state prev
toggleHighlight(prev, segmentId) ==
    IF segmentId \in prev THEN prev \ {segmentId} ELSE prev \cup {segmentId}

\* videoStore.toggleHighlight, applied to state.highlights
videoStoreToggleHighlight(highlights, segmentId) ==
    IF segmentId \in highlights
    THEN highlights \ {segmentId}
    ELSE highlights \cup {segmentId}

\* StorageService.loadHighlights(videoId), as the set of segmentIds the hook
\* makes of it: empty when storage is unavailable or nothing is stored
loadHighlights(m, videoId) ==
    IF ~m.available THEN NoSegments ELSE m.items[videoId]

\* StorageService.saveHighlights(videoId, highlights): throws when storage is
\* unavailable (the hook catches it), else replaces the item of the video
saveHighlights(m, videoId, highlights) ==
    IF ~m.available THEN m ELSE [m EXCEPT !.items[videoId] = highlights]

\* React commits a render of the hook and runs its two effects in order: the
\* load effect when videoId differs from the last commit, then the save effect
\* when highlights or videoId differ; both see the values of this render
CommitHighlights ==
    /\ \/ ~marks.committed.mounted
       \/ marks.fresh # "no"
       \/ marks.videoId # marks.committed.videoId
    /\ LET first == ~marks.committed.mounted
           newVideo == first \/ marks.videoId # marks.committed.videoId
           newSet == first \/ marks.fresh # "no"
           loaded == loadHighlights(marks, marks.videoId)
           saved == IF newVideo \/ newSet
                    THEN saveHighlights(marks, marks.videoId, marks.highlights)
                    ELSE marks
       IN marks' = [saved EXCEPT
                       !.committed = [mounted |-> TRUE,
                                      videoId |-> marks.videoId,
                                      highlights |-> marks.highlights],
                       !.highlights = IF newVideo THEN loaded ELSE @,
                       !.fresh = IF newVideo THEN "load" ELSE "no",
                       !.log = IF newVideo THEN << >> ELSE @]
    /\ UNCHANGED << baseVars, track, player, route >>

\* the log with one more toggle, the last two kept
Logged(log, segmentId, before) ==
    LET l == Append(log, [segmentId |-> segmentId, before |-> before])
    IN IF Len(l) > 2 THEN Tail(l) ELSE l

\* the user clicks a segment of the list: handleSegmentClick
ToggleSegment ==
    \E segmentId \in SegmentIds :
        /\ marks.committed.mounted
        /\ marks' = [marks EXCEPT
                         !.highlights = toggleHighlight(@, segmentId),
                         !.fresh = "toggle",
                         !.log = Logged(@, segmentId, marks.highlights)]
        /\ UNCHANGED << baseVars, track, player, route >>

\* the route param changes: the hook is called with another videoId
SwitchVideo ==
    \E v \in Videos :
        /\ marks.committed.mounted
        /\ v # marks.videoId
        /\ marks' = [marks EXCEPT !.videoId = v]
        /\ UNCHANGED << baseVars, track, player, route >>

\* the page is loaded afresh for video v: the hook's state is gone,
\* localStorage stays
ReloadPage ==
    \E v \in Videos :
        /\ marks.committed.mounted
        /\ marks' = [NoMarks EXCEPT !.available = marks.available,
                                    !.items = marks.items,
                                    !.videoId = v]
        /\ UNCHANGED << baseVars, track, player, route >>

\* the page is about to mount for video A over an empty localStorage that
\* is usable or not
InitHighlights ==
    /\ now = 0
    /\ health = "ok"
    /\ db = "closed"
    /\ store = {}
    /\ ret = NoRet
    /\ calls = [c \in Callers |-> IdleCall]
    /\ apiCalls = [v \in Videos |-> 0]
    /\ ui = InitUI("A")
    /\ rendered = InitUI("A")
    /\ procs = {}
    /\ navs = 0
    /\ hist = InitHist
    /\ track = NoTrack
    /\ player = NoPlayer
    /\ marks \in {[NoMarks EXCEPT !.available = a] : a \in BOOLEAN}
    /\ route = NoRoute

NextHighlights ==
    \/ CommitHighlights
    \/ ToggleSegment
    \/ SwitchVideo
    \/ ReloadPage

SpecHighlights == InitHighlights /\ [][NextHighlights]_vars

\* what toggling segmentId made of the set before: after
OnlyToggled(before, segmentId, after) ==
    \A s \in SegmentIds \ {segmentId} : (s \in after) <=> (s \in before)

\* C34: toggling a highlight on a segment twice restores the set of
\* highlights there was before, and a toggle of one segment leaves the
\* highlight state of every other segment as it was (the hook's toggle as the
\* clicks of the page apply it, and the store's toggle on the same sets).
C34_ToggleInvolution ==
    /\ \A k \in 1 .. Len(marks.log) :
           OnlyToggled(marks.log[k].before, marks.log[k].segmentId,
                       IF k < Len(marks.log) THEN marks.log[k + 1].before
                       ELSE marks.highlights)
    /\ (/\ Len(marks.log) = 2
        /\ marks.log[1].segmentId = marks.log[2].segmentId)
       => marks.highlights = marks.log[1].before
    /\ \A s \in SegmentIds :
           LET once == videoStoreToggleHighlight(marks.highlights, s)
           IN /\ OnlyToggled(marks.highlights, s, once)
              /\ videoStoreToggleHighlight(once, s) = marks.highlights

\* a segment has been clicked twice in a row while another one is highlighted
C34_Witness ==
    /\ Len(marks.log) = 2
    /\ marks.log[1].segmentId = marks.log[2].segmentId
    /\ marks.log[1].segmentId \notin marks.log[1].before
    /\ marks.log[1].before # NoSegments
    /\ marks.highlights = marks.log[1].before

\* C35: loading or switching to a video changes the stored highlights of no
\* video: a step in which no click of the user is waiting to be saved leaves
\* every item of localStorage as it was.
C35_LoadKeepsStored ==
    [][marks.fresh # "toggle" => marks'.items = marks.items]_vars

\* =================================================== app/api/bilibili/speech/transcribe/route.ts

\* POST returns a response with this status: a return or a throw inside try
\* (the catch answers), then finally, which unlinks tempFilePath if it is set
\* and the file exists
routeReturns(r, status) ==
    [r EXCEPT !.pc = "returned",
              !.status = status,
              !.files = IF r.tempFilePath # NoPath /\ r.tempFilePath \in r.files
                        THEN r.files \ {r.tempFilePath}
                        ELSE r.files]

\* a request arrives: the body is parsed, videoId and OPENAI_API_KEY are
\* checked, and downloadBilibiliAudio asks the view API
RouteReceives ==
    \E v \in Videos \cup {"none"}, apiKey \in BOOLEAN :
        /\ route.pc \in {"idle", "returned"}
        /\ route.served < MaxRequests
        /\ LET r == [route EXCEPT !.videoId = v, !.tempFilePath = NoPath,
                                  !.tempFile = NoPath, !.status = 0,
                                  !.served = @ + 1]
           IN route' = IF v = "none" THEN routeReturns(r, 400)
                       ELSE IF ~apiKey THEN routeReturns(r, 500)
                       ELSE [r EXCEPT !.pc = "view"]
        /\ UNCHANGED << baseVars, track, player, marks >>

\* the view API answers: not ok, code # 0 or a video that is too long throw
RouteViewAnswers ==
    \E out \in {"ok", "failed", "toolong"} :
        /\ route.pc = "view"
        /\ route' = IF out = "ok" THEN [route EXCEPT !.pc = "playurl"]
                    ELSE routeReturns(route, 500)
        /\ UNCHANGED << baseVars, track, player, marks >>

\* the playurl API answers: with an audio stream the name of the temporary
\* file is made of videoId and Date.now(), and the stream is requested
RoutePlayUrlAnswers ==
    \E out \in {"ok", "failed", "noaudio"} :
        /\ route.pc = "playurl"
        /\ route' = IF out = "ok"
                    THEN [route EXCEPT !.pc = "audio",
                                       !.tempFile = Path(route.videoId, now)]
                    ELSE routeReturns(route, 500)
        /\ UNCHANGED << baseVars, track, player, marks >>

\* the audio server answers: with a body, fs.createWriteStream(tempFile)
\* creates the file and the pipeline starts to fill it
RouteAudioAnswers ==
    \E out \in {"ok", "notok", "nobody"} :
        /\ route.pc = "audio"
        /\ route' = IF out = "ok"
                    THEN [route EXCEPT !.pc = "pipeline",
                                       !.files = @ \cup {route.tempFile}]
                    ELSE routeReturns(route, 500)
        /\ UNCHANGED << baseVars, track, player, marks >>

\* the pipeline ends: broken in the middle it rejects and
\* downloadBilibiliAudio throws; complete, the path is returned and assigned to
\* tempFilePath, and a file over 25 MB throws, another goes to Whisper
RoutePipelineEnds ==
    \E out \in {"small", "large", "broken"} :
        /\ route.pc = "pipeline"
        /\ route' = IF out = "broken" THEN routeReturns(route, 500)
                    ELSE LET r == [route EXCEPT !.tempFilePath = route.tempFile]
                         IN IF out = "large" THEN routeReturns(r, 500)
                            ELSE [r EXCEPT !.pc = "whisper"]
        /\ UNCHANGED << baseVars, track, player, marks >>

\* openai.audio.transcriptions.create answers or throws
RouteWhisperAnswers ==
    \E out \in {"ok", "apierror", "error"} :
        /\ route.pc = "whisper"
        /\ route' = routeReturns(route, IF out = "ok" THEN 200
                                        ELSE IF out = "apierror" THEN 429
                                        ELSE 500)
        /\ UNCHANGED << baseVars, track, player, marks >>

\* the server is up, no request has arrived
InitRoute ==
    /\ InitServices
    /\ health = "ok"

NextRoute ==
    \/ Tick
    \/ RouteReceives
    \/ RouteViewAnswers
    \/ RoutePlayUrlAnswers
    \/ RouteAudioAnswers
    \/ RoutePipelineEnds
    \/ RouteWhisperAnswers

SpecRoute == InitRoute /\ [][NextRoute]_vars

\* C39: when the handler of a transcribe request has returned, with success
\* or with any failure, the temporary audio file made for that request is not
\* in os.tmpdir().
C39_NoTempFileLeft ==
    route.pc = "returned" => route.tempFile \notin route.files

\* ---------------------------------------------------------------- resolving ends

\* the page with React committing the state it is given, and with the
\* metadata fetch, the native-subtitle fetch and the cache lookups of the hook
\* settling, with an answer or an error; the transcription endpoint and the
\* user are obliged to nothing
SpecPageFair ==
    /\ InitPage
    /\ [][NextPage]_vars
    /\ WF_vars(Render)
    /\ WF_vars(MetaReply)
    /\ WF_vars(NativeReply)
    /\ WF_vars(FallbackHasCached)
    /\ WF_vars(FallbackGetCached)

\* C38: every resolve started by the hook for a video with id and cid leaves
\* the loading state: whenever isLoading is true it becomes false later,
\* whichever way the native fetch and the cache lookups end.
C38_LoadingEnds ==
    ui.isLoading ~> ~ui.isLoading

\* a resolve has ended by a cache hit after the loading state was entered
C38_Witness ==
    /\ ~ui.isLoading
    /\ ui.isSpeechRecognition
    /\ ui.speechRecognitionStatus = "completed"
    /\ ui.speechRecognitionProgress = 100
    /\ ui.subtitles # << >>

====
